---------------------------- MODULE Spec2Model ----------------------------
(***************************************************************************)
(* FFmpeg media service: the URL-based request handlers of index.js        *)
(* (/get-media-metadata, /extract-audio, /extract-keyframes,               *)
(* /recombine-stems) and, from the later revision of index.js              *)
(* (src/unnamed/part_005), the keyframe file naming and the handlers       *)
(* /extract-face-thumbnails and /split-by-scene.                           *)
(*                                                                         *)
(* A handler is an async function: it runs synchronously up to its next    *)
(* await, so one action of this module is one such run-to-completion       *)
(* segment (request received, axios settled, writer settled, tool call     *)
(* settled, upload settled), including the catch and finally blocks the    *)
(* segment falls into.                                                     *)
(*                                                                         *)
(* Times are integers in ticks of 0.2 ms (TicksPerSec ticks per second);   *)
(* strings the code builds are sequences of one-character strings.         *)
(***************************************************************************)
EXTENDS Integers, Sequences, FiniteSets, TLC

VARIABLES
    version,    \* which revision of index.js is deployed
    req,        \* req[j]: the body of request j, NoRequest when none is sent
    lastNow,    \* the last value Date.now() returned
    pc,         \* pc[j]: where handler j is suspended
    tempDir,    \* tempDir[j]: the directory name the handler built
    wsId,       \* wsId[j]: creator of the directory found by ensureDirExists
    dl,         \* dl[j][s]: state of download s of the job
    opRes,      \* opRes[j]: results of the tool calls settled so far
    uploads,    \* uploads[j]: the storage uploads the job started
    outcome,    \* outcome[j]: the response sent
    dirs,       \* directories under os.tmpdir(): <<name, creator>>
    files,      \* files in those directories: <<dir name, file name>>
    bucket,     \* objects in the bucket: <<destination, writer job>>
    encIn,      \* naming check: the request whose names are built
    encOut      \* naming check: the operations named so far

vars == <<version, req, lastNow, pc, tempDir, wsId, dl, opRes, uploads,
          outcome, dirs, files, bucket, encIn, encOut>>

jobVars == <<version, req, lastNow, pc, tempDir, wsId, dl, opRes, uploads,
             outcome, dirs, files, bucket>>

-----------------------------------------------------------------------------
(* Bounds *)

\* Date.now() returns values in 0..MaxClock.
MaxClock == 1

\* The fps=1/2 filter of index.js writes 0..MaxFpsFrames interval frames.
MaxFpsFrames == 1

-----------------------------------------------------------------------------
(* Units *)

TicksPerSec == 5 * 1000

Sec(n) == n * TicksPerSec

Ms(n) == n * (TicksPerSec \div 1000)

\* The step of the interval loop: timeInSeconds += 0.5.
IntervalStep == TicksPerSec \div 2

-----------------------------------------------------------------------------
(* Strings *)

\* The characters the handlers put in names, in increasing code unit order.
Alphabet ==
    <<"-", ".", "/", "0", "1", "2", "3", "4", "5", "6", "7", "8", "9",
      ":", "_", "a", "b", "c", "d", "e", "f", "g", "h", "i", "j", "k", "l", "m",
      "n", "o", "p", "q", "r", "s", "t", "u", "v", "w", "x", "y", "z">>

CodeUnit(c) == CHOOSE i \in 1..Len(Alphabet) : Alphabet[i] = c

\* a < b on JavaScript strings: compare code units, a proper prefix is smaller.
LexLess(a, b) ==
    \E i \in 1..(Len(a) + 1) :
        /\ \A k \in 1..(i - 1) : k <= Len(b) /\ a[k] = b[k]
        /\ \/ i > Len(a) /\ i <= Len(b)
           \/ i <= Len(a) /\ i <= Len(b) /\ CodeUnit(a[i]) < CodeUnit(b[i])

Digit(d) == <<"0", "1", "2", "3", "4", "5", "6", "7", "8", "9">>[d + 1]

RECURSIVE NumberToString(_)
\* Number.prototype.toString of a non-negative integer.
NumberToString(n) ==
    IF n < 10 THEN <<Digit(n)>>
    ELSE NumberToString(n \div 10) \o <<Digit(n % 10)>>

RECURSIVE padStart(_, _, _)
\* String.prototype.padStart(targetLength, padString) with a one-character pad.
padStart(s, targetLength, c) ==
    IF Len(s) >= targetLength THEN s ELSE padStart(<<c>> \o s, targetLength, c)

Pow10(d) == CASE d = 0 -> 1 [] d = 1 -> 10 [] d = 2 -> 100 [] d = 3 -> 1000

\* Number.prototype.toFixed(d) of a non-negative time: the nearest multiple of
\* 10^-d, then the integer part, ".", and d fraction digits.  On a tie toFixed
\* takes the larger value of the binary double; the times drawn below are never
\* on a tie (0.2 ms ticks have none at three digits).
toFixed(t, d) ==
    LET n == (2 * t * Pow10(d) + TicksPerSec) \div (2 * TicksPerSec)
    IN  NumberToString(n \div Pow10(d)) \o <<".">> \o
        padStart(NumberToString(n % Pow10(d)), d, "0")

\* String.prototype.split(c) of a string with at most one occurrence of c.
split(s, c) ==
    IF \E i \in 1..Len(s) : s[i] = c
    THEN LET i == CHOOSE k \in 1..Len(s) : s[k] = c
         IN  <<SubSeq(s, 1, i - 1), SubSeq(s, i + 1, Len(s))>>
    ELSE <<s>>

\* String.prototype.replace(c, r): the first occurrence only.
replace(s, c, r) ==
    IF \E i \in 1..Len(s) : s[i] = c
    THEN LET i == CHOOSE k \in 1..Len(s) :
                      s[k] = c /\ \A m \in 1..(k - 1) : s[m] # c
         IN  SubSeq(s, 1, i - 1) \o r \o SubSeq(s, i + 1, Len(s))
    ELSE s

endsWith(s, suffix) ==
    /\ Len(s) >= Len(suffix)
    /\ SubSeq(s, Len(s) - Len(suffix) + 1, Len(s)) = suffix

dotJpg == <<".", "j", "p", "g">>

-----------------------------------------------------------------------------
(* Naming of keyframe files *)

\* Without the padding: what the name would be if padStart were left out.
formatTimestampNoPad(timeInSeconds, totalDuration) ==
    LET parts == split(toFixed(timeInSeconds, 3), ".")
    IN  parts[1] \o <<"-">> \o parts[2]

formatTimestampForFilename(timeInSeconds, totalDuration) ==
    LET integerPadding == Len(NumberToString(totalDuration \div TicksPerSec))
        parts == split(toFixed(timeInSeconds, 3), ".")
        seconds == padStart(parts[1], integerPadding, "0")
        milliseconds == parts[2]
    IN  seconds \o <<"-">> \o milliseconds

\* Without the shot number: what the name would be if it were left out.
shotFrameFileNoNumber(formatted, shotNumber, role) ==
    formatted \o <<"_", "s", "h", "o", "t">> \o <<"_">> \o role \o dotJpg

\* startFrameFile and endFrameFile of part_005; role is "start" or "end".
shotFrameFile(formatted, shotNumber, role) ==
    formatted \o <<"_", "s", "h", "o", "t", "-">> \o NumberToString(shotNumber)
        \o <<"_">> \o role \o dotJpg

intervalFrameFile(formattedIntervalTime) ==
    formattedIntervalTime \o <<"_", "i", "n", "t", "e", "r", "v", "a", "l">>
        \o dotJpg

roleStart == <<"s", "t", "a", "r", "t">>

roleEnd == <<"e", "n", "d">>

\* The file names of index.js: shot_N_start_S-CCs.jpg, shot_N_end_S-CCs.jpg.
indexShotFile(shotNumber, role, t) ==
    <<"s", "h", "o", "t", "_">> \o NumberToString(shotNumber) \o <<"_">>
        \o role \o <<"_">> \o replace(toFixed(t, 2), ".", <<"-">>)
        \o <<"s">> \o dotJpg

\* interval_frame_%04d.jpg for frame number n.
indexIntervalFile(n) ==
    <<"i", "n", "t", "e", "r", "v", "a", "l", "_", "f", "r", "a", "m", "e", "_">>
        \o padStart(NumberToString(n), 4, "0") \o dotJpg

\* The file names of part_003: shot_I_start.jpg, shot_I_end.jpg, I from 0.
part003ShotFile(index, role) ==
    <<"s", "h", "o", "t", "_">> \o NumberToString(index) \o <<"_">>
        \o role \o dotJpg

\* interval_%04d.jpg of part_003, up to the frame number.
part003IntervalPattern == <<"i", "n", "t", "e", "r", "v", "a", "l", "_">>

Op(kind, shot, t, file) == [kind |-> kind, shot |-> shot, t |-> t, file |-> file]

RECURSIVE shotLoop(_, _, _, _)
\* for (let i = 0; i < shots.length; i++): two frame requests per shot.
shotLoop(ver, shots, totalDuration, i) ==
    IF i > Len(shots) THEN <<>>
    ELSE LET shot == shots[i]
             startFile ==
                 IF ver = "part_005"
                 THEN shotFrameFile(
                          formatTimestampForFilename(shot.startTime, totalDuration),
                          i, roleStart)
                 ELSE indexShotFile(i, roleStart, shot.startTime)
             endFile ==
                 IF ver = "part_005"
                 THEN shotFrameFile(
                          formatTimestampForFilename(shot.endTime, totalDuration),
                          i, roleEnd)
                 ELSE indexShotFile(i, roleEnd, shot.endTime)
         IN  <<Op("start", i, shot.startTime, startFile),
               Op("end", i, shot.endTime, endFile)>>
             \o shotLoop(ver, shots, totalDuration, i + 1)

RECURSIVE part003Loop(_, _)
\* shots.forEach((shot, index) => ...) of part_003: two calls per shot.
part003Loop(shots, i) ==
    IF i > Len(shots) THEN <<>>
    ELSE <<Op("start", i, shots[i].startTime, part003ShotFile(i - 1, roleStart)),
           Op("end", i, shots[i].endTime, part003ShotFile(i - 1, roleEnd))>>
         \o part003Loop(shots, i + 1)

\* The calls behind extractionPromises of part_003: those of the shots, then
\* the fps=1/2 call.
part003Ops(shots) ==
    part003Loop(shots, 1) \o <<Op("fps", 0, 0, part003IntervalPattern)>>

RECURSIVE intervalLoopInclusive(_, _)
\* The loop with the bound t <= total_duration.
intervalLoopInclusive(timeInSeconds, totalDuration) ==
    IF timeInSeconds <= totalDuration
    THEN <<Op("interval", 0, timeInSeconds,
              intervalFrameFile(
                  formatTimestampForFilename(timeInSeconds, totalDuration)))>>
         \o intervalLoopInclusive(timeInSeconds + IntervalStep, totalDuration)
    ELSE <<>>

RECURSIVE intervalLoop(_, _)
\* for (let t = 0.5; t < total_duration; t += 0.5): one frame request per t.
intervalLoop(timeInSeconds, totalDuration) ==
    IF timeInSeconds < totalDuration
    THEN <<Op("interval", 0, timeInSeconds,
              intervalFrameFile(
                  formatTimestampForFilename(timeInSeconds, totalDuration)))>>
         \o intervalLoop(timeInSeconds + IntervalStep, totalDuration)
    ELSE <<>>

\* The tool calls of one /extract-keyframes job, in the order they are made.
keyframeOps(ver, shots, totalDuration) ==
    shotLoop(ver, shots, totalDuration, 1) \o
    IF ver = "part_005"
    THEN intervalLoop(IntervalStep, totalDuration)
    ELSE <<Op("fps", 0, 0, <<>>)>>

-----------------------------------------------------------------------------
(* Face and scene annotations (part_005) *)

\* One element of faceAnnotations: faceId, whether timeSegments is present
\* and not empty, and the bounds of timeSegments[0].
Face(faceId, hasSegments, startTime, endTime) ==
    [faceId |-> faceId, hasSegments |-> hasSegments,
     startTime |-> startTime, endTime |-> endTime]

\* One element of sceneAnnotations: startTime and endTime are strings.
Scene(startTime, endTime) == [startTime |-> startTime, endTime |-> endTime]

\* A loop that skips nothing.
neverSkipped(element) == FALSE

\* if (!face.timeSegments || face.timeSegments.length === 0) continue;
faceSkipped(face) == ~face.hasSegments

\* segment.startTime + ((segment.endTime - segment.startTime) / 2)
faceTimestamp(face) == face.startTime + ((face.endTime - face.startTime) \div 2)

\* `${face.faceId}_at_${timestamp.toFixed(2)}s.jpg`
faceFile(faceId, timestamp) ==
    faceId \o <<"_", "a", "t", "_">> \o toFixed(timestamp, 2) \o <<"s">> \o dotJpg

RECURSIVE faceLoop(_, _)
\* for (const face of faceAnnotations): one crop per face that has a segment.
faceLoop(faceAnnotations, i) ==
    IF i > Len(faceAnnotations) THEN <<>>
    ELSE LET face == faceAnnotations[i]
         IN  (IF faceSkipped(face) THEN <<>>
              ELSE <<Op("crop", i, faceTimestamp(face),
                        faceFile(face.faceId, faceTimestamp(face)))>>)
             \o faceLoop(faceAnnotations, i + 1)

isDigit(c) == c \in {Digit(d) : d \in 0..9}

DigitValue(c) == CHOOSE d \in 0..9 : Digit(d) = c

RECURSIVE digitsValue(_)
\* The value of a string of decimal digits (0 for the empty string).
digitsValue(s) ==
    IF s = <<>> THEN 0
    ELSE 10 * digitsValue(SubSeq(s, 1, Len(s) - 1)) + DigitValue(s[Len(s)])

\* The length of the longest prefix of s made of decimal digits.
digitsPrefix(s) ==
    CHOOSE n \in 0..Len(s) :
        /\ \A k \in 1..n : isDigit(s[k])
        /\ n < Len(s) => ~isDigit(s[n + 1])

NaN == [nan |-> TRUE, v |-> 0]

\* parseFloat of an unsigned decimal string: the longest prefix of the form
\* digits[.digits] (at most three fraction digits), in ticks; NaN when the
\* string does not start with a digit.
parseFloat(s) ==
    LET n == digitsPrefix(s)
        rest == SubSeq(s, n + 1, Len(s))
        m == IF rest # <<>> /\ rest[1] = "."
             THEN digitsPrefix(SubSeq(rest, 2, Len(rest))) ELSE 0
        frac == SubSeq(rest, 2, m + 1)
    IN  IF n = 0 THEN NaN
        ELSE [nan |-> FALSE,
              v |-> digitsValue(SubSeq(s, 1, n)) * TicksPerSec
                    + (digitsValue(frac) * TicksPerSec) \div Pow10(m)]

\* s.endsWith('s') ? s.slice(0, -1) : s
stripS(s) == IF endsWith(s, <<"s">>) THEN SubSeq(s, 1, Len(s) - 1) ELSE s

\* duration = parseFloat(endTime) - parseFloat(startTime): NaN if either is.
sceneDuration(scene) ==
    LET a == parseFloat(stripS(scene.startTime))
        b == parseFloat(stripS(scene.endTime))
    IN  IF a.nan \/ b.nan THEN NaN ELSE [nan |-> FALSE, v |-> b.v - a.v]

\* if (isNaN(duration) || duration <= 0) { console.warn(...); continue; }
sceneSkipped(scene) ==
    LET duration == sceneDuration(scene) IN duration.nan \/ duration.v <= 0

dotMp4 == <<".", "m", "p", "4">>

\* `scene_${i + 1}_${startTime}s_to_${endTime}s.mp4`; number is i + 1.
sceneFile(number, startTime, endTime) ==
    <<"s", "c", "e", "n", "e", "_">> \o NumberToString(number) \o <<"_">>
        \o startTime \o <<"s", "_", "t", "o", "_">> \o endTime \o <<"s">> \o dotMp4

RECURSIVE sceneLoop(_, _)
\* for (let i = 0; i < sceneAnnotations.length; i++): one cut per scene with
\* a positive duration.
sceneLoop(sceneAnnotations, i) ==
    IF i > Len(sceneAnnotations) THEN <<>>
    ELSE LET scene == sceneAnnotations[i]
             startTime == stripS(scene.startTime)
             endTime == stripS(scene.endTime)
         IN  (IF sceneSkipped(scene) THEN <<>>
              ELSE <<Op("cut", i, parseFloat(startTime).v,
                        sceneFile(i, startTime, endTime))>>)
             \o sceneLoop(sceneAnnotations, i + 1)

\* .outputOptions('-c', 'copy') of the cut; the other calls pass no codec
\* option.
outputOptions(op) == IF op.kind = "cut" THEN <<"-c", "copy">> ELSE <<>>

-----------------------------------------------------------------------------
(* Requests *)

Jobs == {1, 2}

Versions == {"index", "part_005"}

Routes == {"metadata", "audio", "keyframes", "recombine", "faces", "scenes"}

\* app.post(...): the routes a revision registers.
routeExists(ver, route) ==
    route \in {"faces", "scenes"} => ver = "part_005"

\* The length of the media behind videoUrl in the requests below: 10 s.
SourceDuration == 10 * TicksPerSec

\* urls[i]: whether the i-th URL field of the body is present; shotsIsArray:
\* whether "shots" is present and an array; total_duration 0: absent or zero;
\* annotationsIsArray, annotations: the faceAnnotations or sceneAnnotations
\* field; sourceDuration: the length of the media behind videoUrl.
Request(route, urls, shotsIsArray, shots, totalDuration) ==
    [route |-> route, urls |-> urls, shotsIsArray |-> shotsIsArray,
     shots |-> shots, total_duration |-> totalDuration,
     annotationsIsArray |-> FALSE, annotations |-> <<>>,
     sourceDuration |-> SourceDuration]

\* The body of /extract-face-thumbnails and of /split-by-scene.
AnnotationRequest(route, url, isArray, annotations) ==
    [Request(route, <<url>>, FALSE, <<>>, 0)
        EXCEPT !.annotationsIsArray = isArray, !.annotations = annotations]

NoRequest == Request("none", <<>>, FALSE, <<>>, 0)

Shot(startTime, endTime) == [startTime |-> startTime, endTime |-> endTime]

\* A handler without the guard.
ValidAlways(ver, r) == TRUE

\* The guard of each handler: if (!videoUrl || ...) return res.status(400).
Valid(ver, r) ==
    CASE r.route = "recombine" -> r.urls[1] /\ r.urls[2] /\ r.urls[3]
      [] r.route = "keyframes" ->
            /\ r.urls[1]
            /\ r.shotsIsArray
            /\ (ver = "part_005" => r.total_duration # 0)
      [] r.route \in {"faces", "scenes"} -> r.urls[1] /\ r.annotationsIsArray
      [] OTHER -> r.urls[1]

sourceMp4 == <<"s", "o", "u", "r", "c", "e", ".", "m", "p", "4">>

audioM4a == <<"a", "u", "d", "i", "o", ".", "m", "4", "a">>

drumsWav == <<"d", "r", "u", "m", "s", ".", "w", "a", "v">>

bassWav == <<"b", "a", "s", "s", ".", "w", "a", "v">>

otherWav == <<"o", "t", "h", "e", "r", ".", "w", "a", "v">>

soundscapeWav ==
    <<"s", "o", "u", "n", "d", "s", "c", "a", "p", "e", ".", "w", "a", "v">>

\* path.join(os.tmpdir(), `${route}_${Date.now()}`)
tempDirName(route, now) == <<route, now>>

NoDir == <<"none", 0>>

\* The files the downloads of a job write, in the order they are started.
downloadTargets(route) ==
    IF route = "recombine" THEN <<drumsWav, bassWav, otherWav>>
    ELSE <<sourceMp4>>

\* The tool calls of a job, in the order the handler makes them.
jobOps(ver, r) ==
    CASE r.route = "metadata" -> <<Op("probe", 0, 0, <<>>)>>
      [] r.route = "audio" -> <<Op("audio", 0, 0, audioM4a)>>
      [] r.route = "recombine" -> <<Op("mix", 0, 0, soundscapeWav)>>
      [] r.route = "keyframes" ->
            IF ver = "part_003" THEN part003Ops(r.shots)
            ELSE keyframeOps(ver, r.shots, r.total_duration)
      [] r.route = "faces" ->
            <<Op("probe", 0, 0, <<>>)>> \o faceLoop(r.annotations, 1)
      [] r.route = "scenes" -> sceneLoop(r.annotations, 1)
      [] OTHER -> <<>>

\* An input of a tool call: a file of the work directory, or a URL the tool
\* fetches itself.
LocalInput(name) == [remote |-> FALSE, name |-> name]

RemoteInput(field) == [remote |-> TRUE, name |-> field]

\* ffmpeg().input(drumsPath).input(bassPath).input(...): the third input is
\* otherPath in index.js and otherUrl in part_005.
mixInputs(ver) ==
    <<LocalInput(drumsWav), LocalInput(bassWav),
      IF ver = "part_005" THEN RemoteInput(<<"otherUrl">>)
      ELSE LocalInput(otherWav)>>

\* The local files a tool call reads.  The mixdown of part_005 reads the
\* third stem from otherUrl, not from the workspace.
toolInputs(ver, op) ==
    IF op.kind = "mix"
    THEN {mixInputs(ver)[k].name :
              k \in {n \in 1..Len(mixInputs(ver)) : ~mixInputs(ver)[n].remote}}
    ELSE {sourceMp4}

\* The files a successful tool call writes; n is the number of frames the
\* fps filter produced.
toolOutputs(op, n) ==
    CASE op.kind = "probe" -> {}
      [] op.kind = "fps" ->
            {IF op.file = <<>> THEN indexIntervalFile(k)
             ELSE op.file \o padStart(NumberToString(k), 4, "0") \o dotJpg :
                 k \in 1..n}
      [] OTHER -> {op.file}

\* The calls that seek to op.t and write one frame.
FrameKinds == {"start", "end", "interval", "crop"}

-----------------------------------------------------------------------------
(* File system and bucket *)

existsSync(dirPath, D) == \E c \in Jobs : <<dirPath, c>> \in D

\* if (!fs.existsSync(dirPath)) fs.mkdirSync(dirPath, { recursive: true })
ensureDirExists(dirPath, j, D) ==
    IF existsSync(dirPath, D) THEN D ELSE D \cup {<<dirPath, j>>}

creatorOf(dirPath, D) == CHOOSE c \in Jobs : <<dirPath, c>> \in D

\* A finally block that forgets the directory.
finallyKeepDirs(dirPath, D) == D

\* finally { if (fs.existsSync(tempDir)) fs.rmSync(tempDir, {recursive, force}) }
\* the directories left.
finallyDirs(dirPath, D) == {d \in D : d[1] # dirPath}

\* ... and the files left.
finallyFiles(dirPath, F) == {f \in F : f[1] # dirPath}

\* A removal that does not descend into the directory.
rmOptionsShallow == [recursive |-> FALSE, force |-> TRUE]

\* { recursive: true, force: true }
rmOptions == [recursive |-> TRUE, force |-> TRUE]

\* fs.rmSync(path, options): a missing path is an error unless force is set,
\* a directory is an error unless recursive is set; otherwise the directory
\* and everything in it are gone.
rmSync(dirPath, options, D, F) ==
    IF ~existsSync(dirPath, D)
    THEN [error |-> ~options.force, dirs |-> D, files |-> F]
    ELSE IF ~options.recursive
    THEN [error |-> TRUE, dirs |-> D, files |-> F]
    ELSE [error |-> FALSE,
          dirs |-> finallyDirs(dirPath, D),
          files |-> finallyFiles(dirPath, F)]

\* if (fs.existsSync(tempDir)) fs.rmSync(tempDir, { recursive: true, force: true })
release(dirPath, D, F) ==
    IF existsSync(dirPath, D) THEN rmSync(dirPath, rmOptions, D, F)
    ELSE [error |-> FALSE, dirs |-> D, files |-> F]

RECURSIVE sortNames(_)
\* fs.readdirSync lists the entries in code unit order.
sortNames(S) ==
    IF S = {} THEN <<>>
    ELSE LET m == CHOOSE x \in S : \A y \in S \ {x} : LexLess(x, y)
         IN  <<m>> \o sortNames(S \ {m})

\* fs.readdirSync(tempDir).filter(f => f.endsWith('.jpg'))
generatedFiles(dirPath, F) ==
    sortNames({f[2] : f \in {g \in F : g[1] = dirPath /\ endsWith(g[2], dotJpg)}})

\* A destination that carries the clock on every route, as the keys
\* `keyframes/${Date.now()}_${filename}` of an earlier revision did.
gcsDestinationStamped(route, filename, now) ==
    <<route, "/">> \o NumberToString(now) \o <<"_">> \o filename

\* gcsDestination of each route; now is Date.now() where the route reads it.
gcsDestination(route, filename, now) ==
    CASE route = "keyframes" ->
            <<"k", "e", "y", "f", "r", "a", "m", "e", "s", "/">> \o filename
      [] route = "audio" ->
            <<"a", "u", "d", "i", "o", "/">> \o NumberToString(now)
                \o <<"-">> \o audioM4a
      [] route = "recombine" ->
            <<"s", "o", "u", "n", "d", "s", "c", "a", "p", "e", "s", "/">>
                \o NumberToString(now) \o <<"-">> \o soundscapeWav
      [] route = "faces" ->
            <<"f", "a", "c", "e", "_", "t", "h", "u", "m", "b", "n", "a", "i",
              "l", "s", "/">> \o filename
      [] route = "scenes" ->
            <<"s", "c", "e", "n", "e", "s", "/">> \o filename

\* process.env.GCS_BUCKET_NAME
bucketName == <<"b", "u", "c", "k", "e", "t">>

\* `https://storage.googleapis.com/${bucketName}/${gcsDestination}`, which
\* is also what file.publicUrl() returns for the names built here.
publicUrl(destination) ==
    <<"h", "t", "t", "p", "s", ":", "/", "/", "s", "t", "o", "r", "a", "g", "e",
      ".", "g", "o", "o", "g", "l", "e", "a", "p", "i", "s", ".", "c", "o", "m",
      "/">> \o bucketName \o <<"/">> \o destination

\* uploadResults.map(result => locator of result[0]): Promise.all gives the
\* results in the order of the promises, whatever the order they settled in;
\* result[0].name is the destination of that upload.
responseUrls(ups) == [i \in 1..Len(ups) |-> publicUrl(ups[i].key)]

-----------------------------------------------------------------------------
(* Awaiting *)

\* Every rejection swallowed: fulfilled as soon as nothing is pending.
awaitAllSettled(sts) ==
    IF \E i \in 1..Len(sts) : sts[i] = "pending" THEN "pending" ELSE "fulfilled"

\* Fulfilled by the first task that is done.
awaitAny(sts) ==
    IF \E i \in 1..Len(sts) : sts[i] = "failed" THEN "rejected"
    ELSE IF \E i \in 1..Len(sts) : sts[i] = "ok" THEN "fulfilled"
    ELSE "pending"

\* await Promise.all(promises) (a single awaited promise is the case Len = 1):
\* rejects with the first rejection, is fulfilled when every promise is.
PromiseAll(sts) ==
    IF \E i \in 1..Len(sts) : sts[i] = "failed" THEN "rejected"
    ELSE IF \A i \in 1..Len(sts) : sts[i] = "ok" THEN "fulfilled"
    ELSE "pending"

\* A download promise that a timeout rejects when the writer never settles.
downloadPromiseTimeout(st) ==
    CASE st = "done" -> "ok" [] st \in {"failed", "stalled"} -> "failed"
      [] OTHER -> "pending"

\* The promise of one download as Promise.all sees it.
downloadPromise(st) ==
    CASE st = "done" -> "ok" [] st = "failed" -> "failed" [] OTHER -> "pending"

\* The download await with rejections swallowed.
awaitDownloadsSettled(sts) ==
    awaitAllSettled([i \in 1..Len(sts) |-> downloadPromise(sts[i])])

\* The download await as a race for the first stem.
awaitDownloadsAny(sts) ==
    awaitAny([i \in 1..Len(sts) |-> downloadPromise(sts[i])])

\* The await of the download stage: one writer promise, or Promise.all of
\* the three downloadFile promises of /recombine-stems.
awaitDownloads(sts) == PromiseAll([i \in 1..Len(sts) |-> downloadPromise(sts[i])])

\* The upload await with rejections swallowed.
awaitUploadsSettled(ups) == awaitAllSettled([i \in 1..Len(ups) |-> ups[i].st])

\* The await of the upload stage.
awaitUploads(ups) == PromiseAll([i \in 1..Len(ups) |-> ups[i].st])

\* A tool call that never rejects.
toolNeverRejects(result) == FALSE

\* .on('end', resolve).on('error', reject): the awaited tool promise rejects
\* on the error event.
toolRejects(result) == result = "err"

-----------------------------------------------------------------------------
(* Workload *)

\* Shot lists of the requests one job is checked on: none, one shot, two
\* shots that start at the same time, and a shot that starts inside the
\* source and ends beyond it.
ShotLists ==
    { <<>>,
      <<Shot(Ms(500), Sec(1))>>,
      <<Shot(0, Ms(500)), Shot(0, Sec(1))>>,
      <<Shot(Sec(2), Sec(20))>> }

\* total_duration values of those requests: absent, and 1.2 s.
Durations == {0, Ms(1200)}

faceA == <<"f", "1">>

faceB == <<"f", "2">>

\* faceAnnotations lists: two tracks of one face whose midpoints are 1 ms
\* apart, a track with a segment and one without, a single track without.
FaceLists ==
    { <<Face(faceA, TRUE, Sec(1), Sec(1) + Ms(2)),
        Face(faceA, TRUE, Sec(1), Sec(1) + Ms(4))>>,
      <<Face(faceA, TRUE, Sec(1), Sec(2)), Face(faceB, FALSE, 0, 0)>>,
      <<Face(faceB, FALSE, 0, 0)>> }

\* sceneAnnotations lists: a scene, an empty scene and a scene whose start
\* is not a number; two scenes, one written without the unit.
SceneLists ==
    { <<Scene(<<"0", "s">>, <<"1", ".", "5", "s">>),
        Scene(<<"2", "s">>, <<"2", "s">>),
        Scene(<<"x">>, <<"1", "s">>)>>,
      <<Scene(<<"0", "s">>, <<"1", ".", "5", "s">>),
        Scene(<<"1", ".", "5">>, <<"3", "s">>)>> }

Requests ==
    {Request("metadata", <<u>>, FALSE, <<>>, 0) : u \in BOOLEAN}
    \cup {Request("audio", <<TRUE>>, FALSE, <<>>, 0)}
    \cup {Request("recombine", <<TRUE, TRUE, u>>, FALSE, <<>>, 0) : u \in BOOLEAN}
    \cup {Request("keyframes", <<TRUE>>, TRUE, sh, d) :
              sh \in ShotLists, d \in Durations}
    \cup {Request("keyframes", <<TRUE>>, FALSE, <<>>, Ms(1200))}
    \cup {Request("keyframes", <<FALSE>>, TRUE, <<>>, Ms(1200))}
    \cup {AnnotationRequest("faces", TRUE, TRUE, fa) : fa \in FaceLists}
    \cup {AnnotationRequest("scenes", TRUE, TRUE, sc) : sc \in SceneLists}
    \cup {AnnotationRequest(r, FALSE, TRUE, <<>>) : r \in {"faces", "scenes"}}
    \cup {AnnotationRequest(r, TRUE, FALSE, <<>>) : r \in {"faces", "scenes"}}

\* The requests two concurrent jobs are checked on.
SmallRequests ==
    {Request("metadata", <<TRUE>>, FALSE, <<>>, 0),
     Request("audio", <<TRUE>>, FALSE, <<>>, 0),
     Request("recombine", <<TRUE, TRUE, TRUE>>, FALSE, <<>>, 0),
     Request("keyframes", <<TRUE>>, TRUE, <<>>, Ms(600))}

-----------------------------------------------------------------------------
(* Handlers *)

ops(j) == jobOps(version, req[j])

\* part_003 pushes one promise per tool call into extractionPromises, each
\* call started as it is pushed, and awaits Promise.all of them; the other
\* revisions await each call before the next is started.
parallelDispatch(ver) == ver = "part_003"

\* extractionPromises once every call has been pushed: all are pending.
extractionPromises(opsSeq) == [i \in 1..Len(opsSeq) |-> "pending"]

\* The promise of one tool call as Promise.all sees it.
toolPromise(result) ==
    CASE result = "pending" -> "pending"
      [] toolRejects(result) -> "failed"
      [] OTHER -> "ok"

\* The await of the extraction stage of part_003.
awaitExtractions(res) == PromiseAll([i \in 1..Len(res) |-> toolPromise(res[i])])

\* destination: `keyframes/${Date.now()}_${filename}` of part_003.
part003Destination(filename, now) ==
    <<"keyframes", "/">> \o NumberToString(now) \o <<"_">> \o filename

\* Tool calls of job j started so far.
toolCalls(j) == Len(opRes[j]) + (IF pc[j] \in {"tool", "hung"} THEN 1 ELSE 0)

\* A response sent from inside the tool loop, which then goes on with the
\* next call when there is one.
SettleAndGoOn(j, oc, D, F) ==
    LET goOn == pc[j] = "tool" /\ Len(opRes[j]) + 2 <= Len(ops(j))
    IN  /\ pc' = [pc EXCEPT ![j] = IF goOn THEN "tool" ELSE "done"]
        /\ outcome' = [outcome EXCEPT ![j] = oc]
        /\ dirs' = IF goOn THEN D ELSE finallyDirs(tempDir[j], D)
        /\ files' = IF goOn THEN F ELSE finallyFiles(tempDir[j], F)

\* res.status(...) followed by the finally block, on the file system D, F.
Settle(j, oc, D, F) ==
    /\ pc' = [pc EXCEPT ![j] = "done"]
    /\ outcome' = [outcome EXCEPT ![j] = oc]
    /\ dirs' = release(tempDir[j], D, F).dirs
    /\ files' = release(tempDir[j], D, F).files

\* The handler stays suspended (or has ended): nothing but D, F changes.
Stay(j, D, F) ==
    /\ dirs' = D
    /\ files' = F
    /\ UNCHANGED <<pc, outcome>>

\* generatedFiles of /extract-face-thumbnails (pushed before each crop is
\* awaited) and of /split-by-scene (pushed when a cut ends), once the loop
\* is through.
pushedFiles(opsSeq) ==
    LET sel == SelectSeq(opsSeq, LAMBDA o : o.kind \in {"crop", "cut"})
    IN  [i \in 1..Len(sel) |-> sel[i].file]

\* The upload stage of job j on the file system D, F: the list of uploads
\* is built and all are started; then the handler awaits them.  An upload
\* of a file that does not exist rejects.
Publish(j, D, F) ==
    LET route == req[j].route
        d == tempDir[j]
    IN  CASE route = "metadata" ->
                /\ Settle(j, "success", D, F)
                /\ UNCHANGED <<uploads, lastNow>>
          [] route \in {"keyframes", "faces", "scenes"} ->
                IF route = "keyframes" /\ ~existsSync(d, D)
                THEN \* readdirSync throws
                     /\ Settle(j, "failure", D, F)
                     /\ UNCHANGED <<uploads, lastNow>>
                ELSE \* these routes do not read the clock, now at this moment
                     \E now \in lastNow..MaxClock :
                     LET gen == IF route = "keyframes" THEN generatedFiles(d, F)
                                ELSE pushedFiles(ops(j))
                         ups == [i \in 1..Len(gen) |->
                                    [file |-> gen[i],
                                     key |-> IF version = "part_003"
                                             THEN part003Destination(gen[i], now)
                                             ELSE gcsDestination(route, gen[i], now),
                                     st |-> IF <<d, gen[i]>> \in F
                                            THEN "pending" ELSE "failed"]]
                     IN  /\ uploads' = [uploads EXCEPT ![j] = ups]
                         /\ lastNow' = IF version = "part_003" /\ gen # <<>>
                                       THEN now ELSE lastNow
                         /\ IF awaitUploads(ups) = "fulfilled"
                            THEN Settle(j, "success", D, F)
                            ELSE IF awaitUploads(ups) = "rejected"
                            THEN Settle(j, "failure", D, F)
                            ELSE /\ pc' = [pc EXCEPT ![j] = "uploading"]
                                 /\ dirs' = D
                                 /\ files' = F
                                 /\ UNCHANGED outcome
          [] OTHER ->
                \E now \in lastNow..MaxClock :
                    LET out == ops(j)[1].file
                        present == <<d, out>> \in F
                        ups == <<[file |-> out,
                                  key |-> gcsDestination(route, out, now),
                                  st |-> IF present THEN "pending" ELSE "failed"]>>
                    IN  /\ lastNow' = now
                        /\ uploads' = [uploads EXCEPT ![j] = ups]
                        /\ IF awaitUploads(ups) = "rejected"
                           THEN Settle(j, "failure", D, F)
                           ELSE /\ pc' = [pc EXCEPT ![j] = "uploading"]
                                /\ dirs' = D
                                /\ files' = F
                                /\ UNCHANGED outcome

\* After n tool calls of job j have settled without a rejection: the next
\* one is started, or the upload stage begins.
Continue(j, n, D, F) ==
    IF n < Len(ops(j))
    THEN /\ pc' = [pc EXCEPT ![j] = IF parallelDispatch(version)
                                    THEN "tools" ELSE "tool"]
         /\ dirs' = D
         /\ files' = F
         /\ UNCHANGED <<outcome, uploads, lastNow>>
    ELSE Publish(j, D, F)

\* A request arrives: validation, tempDir, ensureDirExists, and the handler
\* runs to its first await (the axios call; for /recombine-stems the three
\* downloadFile calls, each of which creates its writer first).
Receive(j) ==
    /\ pc[j] = "idle"
    /\ req[j] # NoRequest
    /\ LET r == req[j]
       IN  IF ~Valid(version, r)
           THEN /\ pc' = [pc EXCEPT ![j] = "done"]
                /\ outcome' = [outcome EXCEPT ![j] = "invalid"]
                /\ UNCHANGED <<lastNow, tempDir, wsId, dl, dirs, files>>
           ELSE \E now \in lastNow..MaxClock :
                    LET d == tempDirName(r.route, now)
                        D1 == ensureDirExists(d, j, dirs)
                        tg == downloadTargets(r.route)
                    IN  /\ lastNow' = now
                        /\ tempDir' = [tempDir EXCEPT ![j] = d]
                        /\ wsId' = [wsId EXCEPT ![j] = creatorOf(d, D1)]
                        /\ dirs' = D1
                        /\ files' = IF r.route = "recombine"
                                    THEN files \cup {<<d, tg[s]>> : s \in 1..Len(tg)}
                                    ELSE files
                        /\ dl' = [dl EXCEPT ![j] = [s \in 1..Len(tg) |-> "axios"]]
                        /\ pc' = [pc EXCEPT ![j] = "download"]
                        /\ UNCHANGED outcome
    /\ UNCHANGED <<version, req, opRes, uploads, bucket, encIn, encOut>>

\* The axios call of download s settles.  On a response the body is piped
\* into the writer (created now, except in /recombine-stems); a writer whose
\* directory is gone fails to open.
AxiosSettled(j, s) ==
    /\ pc[j] \in {"download", "done"}
    /\ s \in 1..Len(dl[j])
    /\ dl[j][s] = "axios"
    /\ \E ok \in BOOLEAN :
        LET d == tempDir[j]
            late == req[j].route # "recombine"
            opened == ~late \/ existsSync(d, dirs)
            st == IF ok /\ opened THEN "pipe" ELSE "failed"
            F1 == IF ok /\ late /\ opened
                  THEN files \cup {<<d, downloadTargets(req[j].route)[s]>>}
                  ELSE files
            dl1 == [dl[j] EXCEPT ![s] = st]
        IN  /\ dl' = [dl EXCEPT ![j] = dl1]
            /\ IF pc[j] = "download" /\ awaitDownloads(dl1) = "rejected"
               THEN Settle(j, "failure", dirs, F1)
               ELSE Stay(j, dirs, F1)
    /\ UNCHANGED <<version, req, lastNow, tempDir, wsId, opRes, uploads,
                   bucket, encIn, encOut>>

\* The writer of download s settles: 'finish', 'error', or neither ever,
\* when the response stream breaks (nothing listens to its error).
PipeSettled(j, s) ==
    /\ pc[j] \in {"download", "done"}
    /\ s \in 1..Len(dl[j])
    /\ dl[j][s] = "pipe"
    /\ \E st \in {"done", "failed", "stalled"} :
        LET dl1 == [dl[j] EXCEPT ![s] = st]
            aw == awaitDownloads(dl1)
        IN  /\ dl' = [dl EXCEPT ![j] = dl1]
            /\ IF pc[j] = "download" /\ aw = "rejected"
               THEN /\ Settle(j, "failure", dirs, files)
                    /\ UNCHANGED <<uploads, lastNow, opRes>>
               ELSE IF pc[j] = "download" /\ aw = "fulfilled"
               THEN /\ Continue(j, 0, dirs, files)
                    /\ opRes' = IF parallelDispatch(version)
                                THEN [opRes EXCEPT ![j] = extractionPromises(ops(j))]
                                ELSE opRes
               ELSE /\ Stay(j, dirs, files)
                    /\ UNCHANGED <<uploads, lastNow, opRes>>
    /\ UNCHANGED <<version, req, tempDir, wsId, bucket, encIn, encOut>>

\* A dimension check that never throws.
dimensionsAlwaysKnown(route, result) == FALSE

\* if (!videoStream || !videoStream.width || !videoStream.height) throw ...
\* after the probe of /extract-face-thumbnails.
dimensionsMissing(route, result) == route = "faces" /\ result = "nodims"

\* The tool call in flight settles: "ok" (output written), "empty" (a frame
\* call that seeks to or beyond the end of the source ends without writing a
\* frame), "nodims" (the probe answers without a video stream that has a
\* width and a height), or "err".
ToolSettled(j) ==
    /\ pc[j] = "tool"
    /\ LET i == Len(opRes[j]) + 1
           op == ops(j)[i]
           d == tempDir[j]
           readable == \A f \in toolInputs(version, op) : <<d, f>> \in files
           writable == existsSync(d, dirs)
           beyond == op.kind \in FrameKinds /\ op.t >= req[j].sourceDuration
       IN  \E result \in {"ok", "empty", "nodims", "err"} :
           \E n \in 0..MaxFpsFrames :
               /\ result = "ok" =>
                      readable /\ (op.kind # "probe" => writable) /\ ~beyond
               /\ result = "empty" => readable /\ beyond
               /\ result = "nodims" =>
                      readable /\ op.kind = "probe" /\ req[j].route = "faces"
               /\ (op.kind # "fps" \/ result # "ok") => n = 0
               /\ LET F1 == IF result = "ok"
                            THEN files \cup {<<d, f>> : f \in toolOutputs(op, n)}
                            ELSE files
                  IN  /\ opRes' = [opRes EXCEPT ![j] = Append(@, result)]
                      /\ IF toolRejects(result)
                            \/ dimensionsMissing(req[j].route, result)
                         THEN /\ Settle(j, "failure", dirs, F1)
                              /\ UNCHANGED <<uploads, lastNow>>
                         ELSE Continue(j, i, dirs, F1)
    /\ UNCHANGED <<version, req, tempDir, wsId, dl, bucket, encIn, encOut>>

\* Tool call i of the calls started together settles, in any order; the
\* calls outlive a handler that has ended.  Promise.all rejects with the
\* first 'error' and is fulfilled by the last 'end'.
ParallelToolSettled(j) ==
    /\ parallelDispatch(version)
    /\ pc[j] \in {"tools", "done"}
    /\ \E i \in 1..Len(opRes[j]) :
        /\ opRes[j][i] = "pending"
        /\ LET op == part003Ops(req[j].shots)[i]
               d == tempDir[j]
               readable == \A f \in toolInputs(version, op) : <<d, f>> \in files
               writable == existsSync(d, dirs)
               beyond == op.kind \in FrameKinds /\ op.t >= req[j].sourceDuration
           IN  \E result \in {"ok", "empty", "err"} :
               \E n \in 0..MaxFpsFrames :
                   /\ result = "ok" => readable /\ writable /\ ~beyond
                   /\ result = "empty" => readable /\ beyond
                   /\ (op.kind # "fps" \/ result # "ok") => n = 0
                   /\ LET F1 == IF result = "ok"
                                THEN files \cup
                                         {<<d, f>> : f \in toolOutputs(op, n)}
                                ELSE files
                          res == [opRes[j] EXCEPT ![i] = result]
                          aw == awaitExtractions(res)
                      IN  /\ opRes' = [opRes EXCEPT ![j] = res]
                          /\ IF pc[j] = "tools" /\ aw = "rejected"
                             THEN /\ Settle(j, "failure", dirs, F1)
                                  /\ UNCHANGED <<uploads, lastNow>>
                             ELSE IF pc[j] = "tools" /\ aw = "fulfilled"
                             THEN Publish(j, dirs, F1)
                             ELSE /\ Stay(j, dirs, F1)
                                  /\ UNCHANGED <<uploads, lastNow>>
    /\ UNCHANGED <<version, req, tempDir, wsId, dl, bucket, encIn, encOut>>

\* The tool call in flight never ends: neither 'end' nor 'error' is emitted,
\* and the handler awaits it without a timeout.
ToolHangs(j) ==
    /\ pc[j] = "tool"
    /\ pc' = [pc EXCEPT ![j] = "hung"]
    /\ UNCHANGED <<version, req, lastNow, tempDir, wsId, dl, opRes, uploads,
                   outcome, dirs, files, bucket, encIn, encOut>>

\* Upload i of job j settles; on success the object is in the bucket.
UploadSettled(j, i) ==
    /\ pc[j] \in {"uploading", "done"}
    /\ i \in 1..Len(uploads[j])
    /\ uploads[j][i].st = "pending"
    /\ \E ok \in BOOLEAN :
        LET ups == [uploads[j] EXCEPT ![i].st = IF ok THEN "ok" ELSE "failed"]
            aw == awaitUploads(ups)
        IN  /\ uploads' = [uploads EXCEPT ![j] = ups]
            /\ bucket' = IF ok THEN bucket \cup {<<uploads[j][i].key, j>>}
                         ELSE bucket
            /\ IF pc[j] = "uploading" /\ aw = "rejected"
               THEN Settle(j, "failure", dirs, files)
               ELSE IF pc[j] = "uploading" /\ aw = "fulfilled"
               THEN Settle(j, "success", dirs, files)
               ELSE Stay(j, dirs, files)
    /\ UNCHANGED <<version, req, lastNow, tempDir, wsId, dl, opRes,
                   encIn, encOut>>

-----------------------------------------------------------------------------
(* The handlers of an uploaded file: /upload of part_002 and /extract-audio
   of part_003.  For these handlers tempDir[j] holds outputFilename. *)

\* multer({ dest: ... }): where the uploaded file is stored.
multerDest(ver) == IF ver = "part_002" THEN "uploads/" ELSE "os.tmpdir()"

\* path.join(__dirname, outputFilename), path.join(os.tmpdir(), outputFilename)
outputDir(ver) == IF ver = "part_002" THEN "__dirname" ELSE "os.tmpdir()"

\* req.file.path: multer gives every upload a name of its own.
uploadPath(ver, j) == <<multerDest(ver), <<"u", "p", "_">> \o NumberToString(j)>>

\* `${Date.now()}-audio.m4a`
outputFilename(now) == NumberToString(now) \o <<"-">> \o audioM4a

outputPath(ver, j) == <<outputDir(ver), tempDir[j]>>

\* destination of the upload: outputFilename in part_002,
\* `audio/${outputFilename}` in part_003.
audioDestination(ver, filename) ==
    IF ver = "part_002" THEN filename ELSE <<"audio", "/">> \o filename

\* fs.unlinkSync(path) throws when the file does not exist.
unlinkSync(path, F) == [error |-> path \notin F, files |-> F \ {path}]

\* A finally block that removes nothing.
finallyKeepOutput(path, F) == F

\* finally { if (fs.existsSync(p)) fs.unlinkSync(p) } of part_003.
finallyUnlink(path, F) == IF path \in F THEN unlinkSync(path, F).files ELSE F

\* The body of an uploaded-file request.
UploadRequest(hasFile) == Request("upload", <<hasFile>>, FALSE, <<>>, 0)

\* multer has stored the file, if the request has one, and the handler runs
\* up to the start of ffmpeg.
UploadReceived(j) ==
    /\ pc[j] = "idle"
    /\ req[j] # NoRequest
    /\ IF ~req[j].urls[1]
       THEN /\ pc' = [pc EXCEPT ![j] = "done"]
            /\ outcome' = [outcome EXCEPT ![j] = "invalid"]
            /\ UNCHANGED <<lastNow, tempDir, files>>
       ELSE \E now \in lastNow..MaxClock :
                /\ lastNow' = now
                /\ tempDir' = [tempDir EXCEPT ![j] = outputFilename(now)]
                /\ files' = files \cup {uploadPath(version, j)}
                /\ pc' = [pc EXCEPT ![j] = "tool"]
                /\ UNCHANGED outcome
    /\ UNCHANGED <<version, req, wsId, dl, opRes, uploads, dirs, bucket,
                   encIn, encOut>>

\* ffmpeg ends: 'end' with the output written, or 'error', which may leave
\* a part of the output behind.
AudioToolSettled(j) ==
    /\ pc[j] = "tool"
    /\ \E result \in {"ok", "err"}, partial \in BOOLEAN :
        LET in == uploadPath(version, j)
            out == outputPath(version, j)
            F1 == IF result = "ok" \/ partial THEN files \cup {out} ELSE files
        IN  /\ result = "ok" => ~partial /\ in \in files
            /\ opRes' = [opRes EXCEPT ![j] = Append(@, result)]
            /\ IF toolRejects(result)
               THEN /\ pc' = [pc EXCEPT ![j] = "done"]
                    /\ outcome' = [outcome EXCEPT ![j] = "failure"]
                    /\ files' = IF version = "part_002"
                                THEN unlinkSync(in, F1).files
                                ELSE finallyUnlink(out, F1)
                    /\ UNCHANGED uploads
               ELSE /\ pc' = [pc EXCEPT ![j] = "uploading"]
                    /\ files' = unlinkSync(in, F1).files
                    /\ uploads' = [uploads EXCEPT ![j] =
                           <<[file |-> tempDir[j],
                              key |-> audioDestination(version, tempDir[j]),
                              st |-> "pending"]>>]
                    /\ UNCHANGED outcome
    /\ UNCHANGED <<version, req, lastNow, tempDir, wsId, dl, dirs, bucket,
                   encIn, encOut>>

\* The upload of the audio file settles.  In part_002 the output is
\* unlinked on both paths, and an unlinkSync that throws in the catch block
\* ends the callback before any response is sent.
AudioUploadSettled(j) ==
    /\ pc[j] = "uploading"
    /\ \E ok \in BOOLEAN :
        LET out == outputPath(version, j)
            rm == unlinkSync(out, files)
        IN  /\ uploads' = [uploads EXCEPT ![j][1].st =
                               IF ok THEN "ok" ELSE "failed"]
            /\ bucket' = IF ok THEN bucket \cup {<<uploads[j][1].key, j>>}
                         ELSE bucket
            /\ pc' = [pc EXCEPT ![j] = "done"]
            /\ IF version = "part_002"
               THEN /\ files' = rm.files
                    /\ outcome' = [outcome EXCEPT ![j] =
                           IF rm.error THEN "none"
                           ELSE IF ok THEN "success" ELSE "failure"]
               ELSE /\ files' = finallyUnlink(out, files)
                    /\ outcome' = [outcome EXCEPT ![j] =
                           IF ok THEN "success" ELSE "failure"]
    /\ UNCHANGED <<version, req, lastNow, tempDir, wsId, dl, opRes, dirs,
                   encIn, encOut>>

-----------------------------------------------------------------------------
(* Crop geometry of /extract-face-thumbnails *)

\* The largest frame width and height of the crop check.
MaxDim == 3

\* Box coordinates are multiples of 1/BoxDen between 0 and 1: binary
\* fractions, on which the floating-point products below are exact.
BoxDen == 2 * 2

\* Math.round(num / den): the nearest integer, a half rounded up.
mathRound(num, den) == (2 * num + den) \div (2 * den)

\* face.normalizedBoundingBox, each field in units of 1/BoxDen.
Box(left, top, right, bottom) ==
    [left |-> left, top |-> top, right |-> right, bottom |-> bottom]

\* cropWidth, cropHeight, cropX, cropY of the crop filter.
cropRect(box, videoWidth, videoHeight) ==
    [cropWidth |-> mathRound((box.right - box.left) * videoWidth, BoxDen),
     cropHeight |-> mathRound((box.bottom - box.top) * videoHeight, BoxDen),
     cropX |-> mathRound(box.left * videoWidth, BoxDen),
     cropY |-> mathRound(box.top * videoHeight, BoxDen)]

\* The crop rectangle of one face on one frame size is computed.
Crop ==
    /\ encOut = <<>>
    /\ encOut' = <<cropRect(encIn.box, encIn.videoWidth, encIn.videoHeight)>>
    /\ UNCHANGED <<encIn, jobVars>>

-----------------------------------------------------------------------------
(* Naming check: the names of one /extract-keyframes request of part_005 *)

\* Shot times of the naming check: whole and half seconds, two times less
\* than a millisecond apart, a time just below a whole second, times with
\* more integer digits than a short total_duration, and a time 0.4 ms below
\* ten seconds.
NamingShotLists ==
    { <<>>,
      <<Shot(0, Ms(500))>>,
      <<Shot(Ms(500), Sec(1)), Shot(Ms(500), Sec(1))>>,
      <<Shot(Sec(1) + 1, Sec(1) + 2)>>,
      <<Shot(Ms(2500), Sec(12))>>,
      <<Shot(Sec(2), Sec(10) - 1)>>,
      <<Shot(Sec(2), Sec(10) - 2)>>,
      <<Shot(Sec(9), Sec(11)), Shot(Sec(10), Sec(12))>> }

\* total_duration values of the naming check; the last is 0.2 ms below ten
\* seconds.
NamingDurations == {Ms(400), Sec(3), Ms(10500), Ms(12500), Sec(10) - 1}

Encode ==
    /\ Len(encOut) < Len(jobOps("part_005", encIn))
    /\ encOut' = Append(encOut, jobOps("part_005", encIn)[Len(encOut) + 1])
    /\ UNCHANGED <<encIn, jobVars>>

-----------------------------------------------------------------------------
(* Specifications *)

InitJobs ==
    /\ version \in Versions
    /\ lastNow = 0
    /\ pc = [j \in Jobs |-> "idle"]
    /\ tempDir = [j \in Jobs |-> NoDir]
    /\ wsId = [j \in Jobs |-> 0]
    /\ dl = [j \in Jobs |-> <<>>]
    /\ opRes = [j \in Jobs |-> <<>>]
    /\ uploads = [j \in Jobs |-> <<>>]
    /\ outcome = [j \in Jobs |-> "none"]
    /\ dirs = {}
    /\ files = {}
    /\ bucket = {}

\* One request.
Init ==
    /\ InitJobs
    /\ \E r \in Requests :
           /\ routeExists(version, r.route)
           /\ req = [j \in Jobs |-> IF j = 1 THEN r ELSE NoRequest]
    /\ encIn = NoRequest
    /\ encOut = <<>>

\* Two requests that may be in flight together.
InitTwo ==
    /\ InitJobs
    /\ req \in [Jobs -> SmallRequests]
    /\ encIn = NoRequest
    /\ encOut = <<>>

InitNaming ==
    /\ InitJobs
    /\ version = "part_005"
    /\ req = [j \in Jobs |-> NoRequest]
    /\ \E sh \in NamingShotLists, d \in NamingDurations :
           encIn = Request("keyframes", <<TRUE>>, TRUE, sh, d)
    /\ encOut = <<>>

Next ==
    \E j \in Jobs :
        \/ Receive(j)
        \/ \E s \in 1..3 : AxiosSettled(j, s)
        \/ \E s \in 1..3 : PipeSettled(j, s)
        \/ ToolSettled(j)
        \/ ToolHangs(j)
        \/ \E i \in 1..Len(uploads[j]) : UploadSettled(j, i)

NextNaming == Encode

Spec == Init /\ [][Next]_vars

SpecTwo == InitTwo /\ [][Next]_vars

\* One request, and every pending axios call, writer, tool call and upload
\* comes to its next event (which may be that it stalls or hangs).
SpecFair == Init /\ [][Next]_vars /\ WF_vars(Next)

SpecNaming == InitNaming /\ [][NextNaming]_vars

\* One /extract-keyframes request, served by index.js or by part_003.
InitDispatch ==
    /\ version \in {"index", "part_003"}
    /\ lastNow = 0
    /\ pc = [j \in Jobs |-> "idle"]
    /\ tempDir = [j \in Jobs |-> NoDir]
    /\ wsId = [j \in Jobs |-> 0]
    /\ dl = [j \in Jobs |-> <<>>]
    /\ opRes = [j \in Jobs |-> <<>>]
    /\ uploads = [j \in Jobs |-> <<>>]
    /\ outcome = [j \in Jobs |-> "none"]
    /\ dirs = {}
    /\ files = {}
    /\ bucket = {}
    /\ \E sh \in ShotLists :
           req = [j \in Jobs |->
                     IF j = 1 THEN Request("keyframes", <<TRUE>>, TRUE, sh, 0)
                     ELSE NoRequest]
    /\ encIn = NoRequest
    /\ encOut = <<>>

NextDispatch ==
    \E j \in Jobs :
        \/ Receive(j)
        \/ AxiosSettled(j, 1)
        \/ PipeSettled(j, 1)
        \/ ToolSettled(j)
        \/ ToolHangs(j)
        \/ ParallelToolSettled(j)
        \/ \E i \in 1..Len(uploads[j]) : UploadSettled(j, i)

SpecDispatch == InitDispatch /\ [][NextDispatch]_vars

\* A frame size and a normalized box with left <= right and top <= bottom.
InitCrop ==
    /\ InitJobs
    /\ version = "part_005"
    /\ req = [j \in Jobs |-> NoRequest]
    /\ \E w, h \in 1..MaxDim :
       \E l, t, r, b \in 0..BoxDen :
           /\ l <= r /\ t <= b
           /\ encIn = [videoWidth |-> w, videoHeight |-> h, box |-> Box(l, t, r, b)]
    /\ encOut = <<>>

NextCrop == Crop

SpecCrop == InitCrop /\ [][NextCrop]_vars

\* Two requests with or without a file, served by part_002 or by part_003.
InitUpload ==
    /\ version \in {"part_002", "part_003"}
    /\ lastNow = 0
    /\ pc = [j \in Jobs |-> "idle"]
    /\ tempDir = [j \in Jobs |-> NoDir]
    /\ wsId = [j \in Jobs |-> 0]
    /\ dl = [j \in Jobs |-> <<>>]
    /\ opRes = [j \in Jobs |-> <<>>]
    /\ uploads = [j \in Jobs |-> <<>>]
    /\ outcome = [j \in Jobs |-> "none"]
    /\ dirs = {}
    /\ files = {}
    /\ bucket = {}
    /\ req \in [Jobs -> {UploadRequest(f) : f \in BOOLEAN}]
    /\ encIn = NoRequest
    /\ encOut = <<>>

NextUpload ==
    \E j \in Jobs :
        \/ UploadReceived(j)
        \/ AudioToolSettled(j)
        \/ AudioUploadSettled(j)

SpecUpload == InitUpload /\ [][NextUpload]_vars

-----------------------------------------------------------------------------
(* Properties *)

finished(j) == pc[j] = "done"

hasWorkspace(j) == tempDir[j] # NoDir

\* The directory job j obtained from ensureDirExists still exists.
workspaceExists(j) == <<tempDir[j], wsId[j]>> \in dirs

alive(j) == pc[j] \notin {"idle", "done"}

isKeyframes(j) == req[j].route = "keyframes"

countOf(res, v) == Cardinality({i \in 1..Len(res) : res[i] = v})

someUpload(j, st) == \E i \in 1..Len(uploads[j]) : uploads[j][i].st = st

someDownload(j, st) == \E s \in 1..Len(dl[j]) : dl[j][s] = st

published(j) == {o \in bucket : o[2] = j}

\* C1: once a handler has created its temp directory, every way it finishes
\* (success, download failure, tool failure, upload failure) leaves that
\* directory removed, and no file is left outside an existing directory.
WorkspaceReleased ==
    /\ \A j \in Jobs : finished(j) /\ hasWorkspace(j) => ~workspaceExists(j)
    /\ \A f \in files : existsSync(f[1], dirs)

\* A handler has finished with a failure after one of its uploads failed,
\* and its directory is gone.
WorkspaceReleasedWitness ==
    \E j \in Jobs :
        /\ finished(j) /\ hasWorkspace(j) /\ outcome[j] = "failure"
        /\ someUpload(j, "failed")
        /\ ~existsSync(tempDir[j], dirs)

\* C2: no two jobs that are alive at the same time use the same workspace
\* directory.
WorkspacesDistinct ==
    \A j, k \in Jobs :
        j # k /\ alive(j) /\ alive(k) => tempDir[j] # tempDir[k]

TotalFailureFails ==
    \A j \in Jobs :
        /\ finished(j)
        /\ Len(opRes[j]) >= 1
        /\ countOf(opRes[j], "err") = Len(opRes[j])
        => /\ outcome[j] = "failure"
           /\ uploads[j] = <<>>
           /\ published(j) = {}
           /\ ~workspaceExists(j)

\* A finished job none of whose tool calls succeeded.
TotalFailureFailsWitness ==
    \E j \in Jobs :
        /\ finished(j) /\ hasWorkspace(j)
        /\ Len(ops(j)) >= 1
        /\ countOf(opRes[j], "err") = 1 /\ countOf(opRes[j], "ok") = 0
        /\ ~existsSync(tempDir[j], dirs)

\* C6: a job whose source download fails ends with the failure outcome
\* without any tool invocation and without any upload, and its workspace is
\* removed.
DownloadFailureFails ==
    \A j \in Jobs :
        finished(j) /\ someDownload(j, "failed")
        => /\ outcome[j] = "failure"
           /\ toolCalls(j) = 0
           /\ uploads[j] = <<>>
           /\ ~workspaceExists(j)

\* A finished job whose axios request or writer failed.
DownloadFailureFailsWitness ==
    \E j \in Jobs :
        /\ finished(j) /\ dl[j] = <<"failed">>
        /\ outcome[j] = "failure"

MixAfterAllStems ==
    \A j \in Jobs :
        req[j].route = "recombine" =>
            /\ toolCalls(j) <= 1
            /\ toolCalls(j) = 1 => \A s \in 1..3 : dl[j][s] = "done"
            /\ someDownload(j, "failed") =>
                   /\ toolCalls(j) = 0
                   /\ finished(j)
                   /\ outcome[j] = "failure"
                   /\ ~workspaceExists(j)

\* A stem job that failed with one stem downloaded and another one failed.
MixAfterAllStemsWitness ==
    \E j \in Jobs :
        /\ req[j].route = "recombine" /\ finished(j)
        /\ someDownload(j, "failed") /\ someDownload(j, "done")
        /\ toolCalls(j) = 0

-----------------------------------------------------------------------------
(* Properties of the names *)

\* The timestamp as toFixed(3) rounds it, in milliseconds.
roundedMs(t) == (2 * t + Ms(1)) \div (2 * Ms(1))

\* Number of digits of Math.floor(total_duration).
paddingOf(totalDuration) == Len(NumberToString(totalDuration \div TicksPerSec))

\* C9 as stated: for all timestamps t1 < t2 of one job the file name built
\* for t1 is strictly smaller than the file name built for t2.
NamesSortByTime ==
    \A a, b \in 1..Len(encOut) :
        encOut[a].t < encOut[b].t => LexLess(encOut[a].file, encOut[b].file)

\* C9 amended: for timestamps of one job that differ after rounding to the
\* millisecond and are below 10^w seconds, w the number of digits of
\* floor(total_duration), the name of the smaller one is strictly smaller.
NamesSortByMillisecond ==
    \A a, b \in 1..Len(encOut) :
        /\ roundedMs(encOut[a].t) < roundedMs(encOut[b].t)
        /\ roundedMs(encOut[b].t) < 1000 * Pow10(paddingOf(encIn.total_duration))
        => LexLess(encOut[a].file, encOut[b].file)

\* Names were built for a time below and a time from ten seconds on.
NamesSortByMillisecondWitness ==
    \E a, b \in 1..Len(encOut) :
        /\ encOut[a].t < Sec(10) /\ Sec(10) <= encOut[b].t
        /\ paddingOf(encIn.total_duration) = 2
        /\ LexLess(encOut[a].file, encOut[b].file)

\* C10: any two distinct extraction operations of one /extract-keyframes job
\* are given distinct output file names.
NamesDistinct ==
    \A a, b \in 1..Len(encOut) :
        a # b => encOut[a].file # encOut[b].file

\* Names were built for two shots with equal times and for the interval
\* frame at that time.
NamesDistinctWitness ==
    \E a, b, c \in 1..Len(encOut) :
        /\ encOut[a].kind = "start" /\ encOut[b].kind = "start" /\ a # b
        /\ encOut[c].kind = "interval"
        /\ encOut[a].t = encOut[b].t /\ encOut[a].t = encOut[c].t

isFaces(j) == req[j].route = "faces"

isScenes(j) == req[j].route = "scenes"

\* The calls of job j that have ended with their output written.
extracted(j) == {i \in 1..Len(opRes[j]) : opRes[j][i] = "ok"}

\* C11: in /extract-face-thumbnails, two distinct face annotations of one job
\* that were both extracted never received the same output file name.
FaceNamesDistinct ==
    \A j \in Jobs :
        isFaces(j) =>
            \A a, b \in extracted(j) :
                /\ a # b
                /\ ops(j)[a].kind = "crop" /\ ops(j)[b].kind = "crop"
                => ops(j)[a].file # ops(j)[b].file

\* The artifact files the extractions of job j have written.
produced(j) == {ops(j)[i].file : i \in extracted(j)} \ {<<>>}

\* The frames the fps filter of job j may have written.
fpsFrames(j) ==
    IF \E i \in extracted(j) : ops(j)[i].kind = "fps"
    THEN {indexIntervalFile(k) : k \in 1..MaxFpsFrames} ELSE {}

\* C12: in a job that has reached the upload stage, the files handed to the
\* storage upload are exactly the artifact files the extractions of this job
\* wrote: each of them once, none twice, and none this job did not write.
UploadsAreProduced ==
    \A j \in Jobs :
        uploads[j] # <<>> /\ req[j].route \in {"keyframes", "faces", "scenes"} =>
            LET handed == {uploads[j][i].file : i \in 1..Len(uploads[j])}
            IN  /\ \A a, b \in 1..Len(uploads[j]) :
                       a # b => uploads[j][a].file # uploads[j][b].file
                /\ produced(j) \subseteq handed
                /\ handed \subseteq produced(j) \cup fpsFrames(j)

\* The files job j handed to the upload, and the locators it was given.
handedFiles(j) == {uploads[j][i].file : i \in 1..Len(uploads[j])}

locators(j) == {publicUrl(uploads[j][i].key) : i \in 1..Len(uploads[j])}

\* Jobs j and k publish the same artifacts.
sameArtifacts(j, k) ==
    /\ req[j].route = req[k].route
    /\ uploads[j] # <<>>
    /\ handedFiles(j) = handedFiles(k)

\* C13 as stated: the destination key and the locator depend on the file name
\* and the namespace prefix only, so two jobs that publish the same artifacts,
\* at whatever clock times, are given the same locators.
LocatorsTimeless ==
    \A j, k \in Jobs : sameArtifacts(j, k) => locators(j) = locators(k)

\* C13 amended: that holds for /extract-keyframes; the key of /extract-audio
\* and of /recombine-stems is the prefix, a clock value read by then, "-" and
\* the file name.
KeyframeLocatorsTimeless ==
    /\ \A j, k \in Jobs :
           isKeyframes(j) /\ sameArtifacts(j, k) => locators(j) = locators(k)
    /\ \A j \in Jobs : \A i \in 1..Len(uploads[j]) :
           req[j].route \in {"audio", "recombine"} =>
               \E now \in 0..lastNow :
                   uploads[j][i].key
                       = gcsDestination(req[j].route, uploads[j][i].file, now)

\* Two /extract-keyframes jobs whose workspaces were named at different clock
\* values have published the same files.
KeyframeLocatorsTimelessWitness ==
    /\ isKeyframes(1) /\ sameArtifacts(1, 2)
    /\ tempDir[1][2] # tempDir[2][2]
    /\ finished(1) /\ finished(2)
    /\ outcome[1] = "success" /\ outcome[2] = "success"

\* The interval frame requests named so far, in the order they were made.
intervalRequests == SelectSeq(encOut, LAMBDA o : o.kind = "interval")

encoded == Len(encOut) = Len(jobOps("part_005", encIn))

\* The k for which 0.5 * k is below D.
gridIndexes(D) == {k \in 1..(D \div IntervalStep + 1) : k * IntervalStep < D}

\* C14: the interval loop of /extract-keyframes requests one frame at each
\* t = 0.5 * k with k >= 1 and t < total_duration, in increasing order, and
\* none at 0 or from total_duration on; for total_duration 3.0 these are the
\* five frames at 0.5 .. 2.5, and their names increase strictly.
IntervalGrid ==
    LET D == encIn.total_duration
        rq == intervalRequests
    IN  /\ \A a \in 1..Len(rq) : rq[a].t = a * IntervalStep /\ a \in gridIndexes(D)
        /\ \A a, b \in 1..Len(rq) : a < b => LexLess(rq[a].file, rq[b].file)
        /\ encoded => Len(rq) = Cardinality(gridIndexes(D))
        /\ encoded /\ D = Sec(3) =>
               [a \in 1..Len(rq) |-> rq[a].t]
                   = <<Ms(500), Sec(1), Ms(1500), Sec(2), Ms(2500)>>

\* All names of a request with total_duration 3.0 were built, five of them
\* for interval frames.
IntervalGridWitness ==
    /\ encoded
    /\ encIn.total_duration = Sec(3)
    /\ Len(intervalRequests) = 5

\* The failures the success body of job j lists: { success: true,
\* keyframeUrls } (faceThumbnailUrls, sceneUrls) has no such field.
reportedFailures(j) == <<>>

\* Call i of job j is a frame request at or beyond the end of the source.
beyondSource(j, i) ==
    ops(j)[i].kind \in FrameKinds /\ ops(j)[i].t >= req[j].sourceDuration

\* C15 as stated: a frame request at or beyond the source duration ends as a
\* reported failure of that request, and the job, whose other frames were
\* extracted and published, ends with the success outcome.
OutOfRangeReported ==
    \A j \in Jobs : \A i \in 1..Len(opRes[j]) :
        /\ isKeyframes(j) /\ finished(j) /\ beyondSource(j, i)
        /\ extracted(j) # {} /\ ~someUpload(j, "failed")
        => /\ outcome[j] = "success"
           /\ Len(reportedFailures(j)) >= 1
           /\ ops(j)[i].file \notin handedFiles(j)

\* Element e of the annotation list of a job of this route can be executed:
\* a face with a time segment, a scene whose bounds are numbers with the end
\* after the start.
executable(route, e) ==
    IF route = "faces" THEN e.hasSegments
    ELSE LET a == parseFloat(stripS(e.startTime))
             b == parseFloat(stripS(e.endTime))
         IN  ~a.nan /\ ~b.nan /\ a.v < b.v

executableCount(j) ==
    Cardinality({e \in 1..Len(req[j].annotations) :
                    executable(req[j].route, req[j].annotations[e])})

urlAbsent(r) == \E s \in 1..Len(r.urls) : ~r.urls[s]

\* C17: a request whose source URL is absent is rejected with the
\* invalid-request outcome before any download, tool call or upload, and
\* without a workspace directory having been created.
AbsentUrlRejected ==
    \A j \in Jobs :
        urlAbsent(req[j]) =>
            /\ pc[j] \in {"idle", "done"}
            /\ finished(j) => outcome[j] = "invalid"
            /\ dl[j] = <<>> /\ opRes[j] = <<>> /\ uploads[j] = <<>>
            /\ tempDir[j] = NoDir
            /\ dirs = {} /\ files = {} /\ bucket = {}

\* An /extract-keyframes or /recombine-stems request without one of its URLs
\* has been answered.
AbsentUrlRejectedWitness ==
    /\ req[1].route \in {"keyframes", "recombine"}
    /\ urlAbsent(req[1])
    /\ finished(1) /\ outcome[1] = "invalid"

\* C18: if the response body of the download is interrupted after the
\* transfer has started, the job eventually ends with the failure outcome
\* and its workspace removed.
InterruptedDownloadFails ==
    \A j \in Jobs :
        someDownload(j, "stalled")
            ~> (finished(j) /\ outcome[j] = "failure" /\ ~workspaceExists(j))

\* Handler j is suspended on an await that will never settle: a tool call
\* that hangs, or downloads of which none failed and one stalled.
stuck(j) ==
    \/ pc[j] = "hung"
    \/ /\ pc[j] = "download"
       /\ someDownload(j, "stalled")
       /\ \A s \in 1..Len(dl[j]) : dl[j][s] \in {"done", "stalled"}

probeCalls(j) == Cardinality({i \in 1..toolCalls(j) : ops(j)[i].kind = "probe"})

\* The crop calls of job j started so far.
cropCalls(j) == Cardinality({i \in 1..toolCalls(j) : ops(j)[i].kind = "crop"})

\* C19: in /extract-face-thumbnails the probe is called once per job, after
\* the download and before any crop; if it reports no video stream with a
\* width and a height, no crop call is made and the job ends with failure.
ProbeGuardsCrops ==
    \A j \in Jobs :
        isFaces(j) =>
            /\ probeCalls(j) <= 1
            /\ probeCalls(j) = 1 <=> (dl[j] = <<"done">> /\ hasWorkspace(j))
            /\ cropCalls(j) > 0 => opRes[j] # <<>> /\ opRes[j][1] = "ok"
            /\ opRes[j] # <<>> /\ opRes[j][1] = "nodims" =>
                   /\ cropCalls(j) = 0
                   /\ finished(j) /\ outcome[j] = "failure"

\* A probe has answered without dimensions for a request that has a face to
\* crop.
ProbeGuardsCropsWitness ==
    /\ isFaces(1)
    /\ opRes[1] = <<"nodims">>
    /\ Len(ops(1)) > 1
    /\ outcome[1] = "failure"

\* C21: for every total_duration D >= 1 and every time t with 0 <= t < D,
\* formatTimestampForFilename gives a string of len(floor(D)) + 4 characters:
\* the integer seconds padded to the number of digits of floor(D), "-", and
\* three millisecond digits, with no "." in it.
TimestampWidth ==
    \A a \in 1..Len(encOut) :
        LET D == encIn.total_duration
            t == encOut[a].t
            f == formatTimestampForFilename(t, D)
            w == paddingOf(D)
        IN  /\ encOut[a].kind \in {"start", "end", "interval"}
            /\ D >= Sec(1) /\ 0 <= t /\ t < D
            => /\ SubSeq(encOut[a].file, 1, Len(f)) = f
               /\ Len(f) = w + 4
               /\ f[w + 1] = "-"
               /\ \A k \in 1..Len(f) : f[k] # "."
               /\ \A k \in (1..Len(f)) \ {w + 1} : isDigit(f[k])

\* C22: within one job the stages do not overlap: no tool call is started
\* before the download has finished, no upload is started before the last
\* extraction has ended, and the workspace is removed only after the last
\* upload has ended.
StagesInOrder ==
    \A j \in Jobs :
        /\ toolCalls(j) > 0 => \A s \in 1..Len(dl[j]) : dl[j][s] = "done"
        /\ uploads[j] # <<>> => pc[j] \notin {"download", "tool", "hung"}
        /\ hasWorkspace(j) /\ ~workspaceExists(j) => ~someUpload(j, "pending")

\* Tool calls of job j that have been started and have not settled.
toolsInFlight(j) ==
    (IF pc[j] \in {"tool", "hung"} THEN 1 ELSE 0)
        + Cardinality({i \in 1..Len(opRes[j]) : opRes[j][i] = "pending"})

\* The same request without its shots.
withoutShots(r) == [r EXCEPT !.shots = <<>>]

\* C23: in /extract-keyframes the tool invocations of one job in flight at
\* the same time stay within a bound that does not depend on the number of
\* shots: a request never has more in flight than the same request without
\* shots can have.
ToolsInFlightBounded ==
    \A j \in Jobs :
        isKeyframes(j) =>
            toolsInFlight(j) <= Len(jobOps(version, withoutShots(req[j])))

\* Uploads of job j that have been started and have not settled.
uploadsInFlight(j) ==
    Cardinality({i \in 1..Len(uploads[j]) : uploads[j][i].st = "pending"})

\* The most files the tool calls of request r can write.
artifactLimit(ver, r) ==
    LET o == jobOps(ver, r)
    IN  Cardinality({i \in 1..Len(o) : o[i].kind \in FrameKinds})
            + Cardinality({i \in 1..Len(o) : o[i].kind = "fps"}) * MaxFpsFrames

\* C24: the uploads of one job in flight at the same time stay within a bound
\* that does not depend on the number of artifacts the job produced: a
\* keyframes job never has more in flight than the same request without
\* shots, which produces fewer artifacts, can have.
UploadsInFlightBounded ==
    \A j \in Jobs :
        isKeyframes(j) =>
            uploadsInFlight(j) <= artifactLimit(version, withoutShots(req[j]))

\* C25: in /split-by-scene every cut is invoked in stream-copy mode; once a
\* cut has failed no tool call is made after it (the scene is not re-run in
\* another mode), the job fails and no clip is handed to the upload.
FailedCutNotRerun ==
    \A j \in Jobs :
        isScenes(j) =>
            /\ \A i \in 1..Len(ops(j)) :
                   /\ ops(j)[i].kind = "cut"
                   /\ outputOptions(ops(j)[i]) = <<"-c", "copy">>
            /\ \A i \in 1..Len(opRes[j]) :
                   opRes[j][i] = "err" =>
                       /\ toolCalls(j) = i
                       /\ uploads[j] = <<>>
                       /\ outcome[j] = "failure"
                       /\ \A b \in bucket : b[2] # j

\* A second scene whose cut failed after the first was cut.
FailedCutNotRerunWitness ==
    /\ isScenes(1)
    /\ Len(ops(1)) = 2
    /\ opRes[1] = <<"ok", "err">>
    /\ outcome[1] = "failure"

\* The operations job j has started so far: downloads, tool calls, uploads.
started(j) == <<Len(dl[j]), toolCalls(j), Len(uploads[j])>>

workspaceFiles(j, F) == {f \in F : f[1] = tempDir[j]}

\* C27: the release step applied to the workspace of a job, in whatever state
\* it is (empty, holding only the source, populated, already removed),
\* completes without error and leaves the directory and its files absent;
\* applied a second time it completes without error and changes nothing.
ReleaseIdempotent ==
    \A j \in Jobs :
        hasWorkspace(j) =>
            LET once == release(tempDir[j], dirs, files)
                twice == release(tempDir[j], once.dirs, once.files)
            IN  /\ ~once.error
                /\ ~existsSync(tempDir[j], once.dirs)
                /\ workspaceFiles(j, once.files) = {}
                /\ ~twice.error
                /\ twice.dirs = once.dirs
                /\ twice.files = once.files

\* A workspace that holds the source and a frame, before its release.
ReleaseIdempotentWitness ==
    /\ hasWorkspace(1)
    /\ workspaceExists(1)
    /\ Cardinality(workspaceFiles(1, files)) >= 2

\* Job j is a request that carried a file.
hasUpload(j) == req[j].route = "upload" /\ req[j].urls[1]

\* Another job that has not finished writes to the same output path.
outputShared(j) ==
    \E k \in Jobs \ {j} :
        hasUpload(k) /\ tempDir[k] = tempDir[j] /\ pc[k] \in {"tool", "uploading"}

\* C28: once the handler of an uploaded file has finished, on a tool failure,
\* an upload failure or success alike, neither the uploaded input nor the
\* audio output of the job remains on disk.
NoLocalFilesRetained ==
    \A j \in Jobs :
        hasUpload(j) /\ finished(j) =>
            /\ uploadPath(version, j) \notin files
            /\ outputPath(version, j) \in files => outputShared(j)

\* Downloads of job j that have been started and have not settled.
downloadsInFlight(j) ==
    Cardinality({s \in 1..Len(dl[j]) : dl[j][s] \in {"axios", "pipe"}})

\* C29: when the workspace of a job has been removed, no download, tool call
\* or upload of that job is still in flight.
NoTaskOutlivesWorkspace ==
    \A j \in Jobs :
        hasWorkspace(j) /\ ~workspaceExists(j) =>
            /\ downloadsInFlight(j) = 0
            /\ toolsInFlight(j) = 0
            /\ uploadsInFlight(j) = 0

\* The responses a request can get.
Responses == {"invalid", "success", "failure"}

\* C30: a request gets at most one response, and a handler that has run to
\* its end has sent exactly one of the invalid-request, success and failure
\* responses.
ExactlyOneResponse ==
    \A j \in Jobs :
        /\ outcome[j] \in Responses \cup {"none"}
        /\ finished(j) => outcome[j] \in Responses

\* Job j serves a route that answers with a list of locators.
listsLocators(j) == req[j].route \in {"keyframes", "faces", "scenes"}

\* C31: a success response is sent only after every upload of the job has
\* completed successfully (its object is in the bucket), and the list of
\* locators in it has one entry per file handed to the upload, in the order
\* of that list.
SuccessListsEveryUpload ==
    \A j \in Jobs :
        listsLocators(j) /\ outcome[j] = "success" =>
            LET urls == responseUrls(uploads[j])
            IN  /\ Len(urls) = Len(uploads[j])
                /\ \A i \in 1..Len(uploads[j]) :
                       /\ uploads[j][i].st = "ok"
                       /\ <<uploads[j][i].key, j>> \in bucket
                       /\ urls[i] = publicUrl(gcsDestination(req[j].route,
                                                  uploads[j][i].file, 0))

\* A success response that lists two or more locators.
SuccessListsEveryUploadWitness ==
    /\ listsLocators(1)
    /\ outcome[1] = "success"
    /\ Len(uploads[1]) >= 2
    /\ uploads[1][1].file # uploads[1][2].file

\* C32: a job that ends with the failure response has written no artifact to
\* the bucket, whether the response came before or after its uploads ended.
FailurePublishesNothing ==
    \A j \in Jobs : outcome[j] = "failure" => published(j) = {}

\* C33: artifacts published by two different jobs never share a destination
\* key: no key of the bucket was written by two jobs, also when the jobs
\* worked in different directories.
KeysDistinctAcrossJobs ==
    \A a, b \in bucket :
        /\ a[2] # b[2]
        /\ tempDir[a[2]] # tempDir[b[2]]
        /\ req[a[2]].route \in {"keyframes", "faces", "scenes"}
        /\ req[b[2]].route \in {"keyframes", "faces", "scenes"}
        => a[1] # b[1]

isRecombine(j) == req[j].route = "recombine"

\* C34: in /recombine-stems the inputs of the mixdown call are the three files
\* the stem downloads of the job wrote into its work directory (drums, bass,
\* other), in that order, and none of them is a remote URL.
MixReadsDownloadedStems ==
    \A j \in Jobs :
        isRecombine(j) /\ toolCalls(j) > 0 =>
            /\ Len(mixInputs(version)) = Len(downloadTargets("recombine"))
            /\ \A k \in 1..Len(mixInputs(version)) :
                   /\ ~mixInputs(version)[k].remote
                   /\ mixInputs(version)[k].name = downloadTargets("recombine")[k]

\* C35: for every frame size W x H and every normalized box with
\* 0 <= left <= right <= 1 and 0 <= top <= bottom <= 1 the crop rectangle lies
\* inside the frame.
CropInsideFrame ==
    \A a \in 1..Len(encOut) :
        LET c == encOut[a]
        IN  /\ c.cropX >= 0
            /\ c.cropY >= 0
            /\ c.cropX + c.cropWidth <= encIn.videoWidth
            /\ c.cropY + c.cropHeight <= encIn.videoHeight

=============================================================================
